---- MODULE Spec2Model ----
(***************************************************************************)
(* Model of the rsi repository: the coverage verifier                      *)
(* (scripts/verify_coverage.py), the Fear & Greed fetcher                  *)
(* (scripts/fetch_fear_greed.py) and the strategy plugin                   *)
(* (user_data/strategies/MyFreqAIStrategy.py).                             *)
(*                                                                         *)
(* Each component is a one-shot, single-threaded program; it gets its own  *)
(* specification over its own variables, the other components' variables  *)
(* staying idle.                                                           *)
(***************************************************************************)
EXTENDS Integers, Sequences, FiniteSets, TLC

VARIABLES
    \* read_ts_range on one instant in several encodings
    inst, ranges,
    \* the data directory: path -> content of each existing file
    fs,
    \* infer_data_path on one query
    query, found,
    \* verify_coverage.main
    args, cfg, now_utc, earliest_needed, need_latest, idx, ok, status, vpc,
    exit_code,
    \* fetch_fear_greed.main
    endpoint, csv, fidx, fpc,
    \* MyFreqAIStrategy: the environment, the dataframe handed from hook to hook,
    \* the hook reached, the HTTP requests made and the analyzer outcome used
    env, dataframe, spc, requests, vader_used

parseVars == <<inst, ranges>>
pathVars == <<query, found>>
verifierVars ==
    <<args, cfg, now_utc, earliest_needed, need_latest, idx, ok, status, vpc, exit_code>>
fetchVars == <<endpoint, csv, fidx, fpc>>
strategyVars == <<env, dataframe, spc, requests, vader_used>>
vars == <<parseVars, fs, pathVars, verifierVars, fetchVars, strategyVars>>

\* the variables of a component that is not running
IdleParse == inst = 0 /\ ranges = <<>>
IdleFs == fs = <<>>
IdlePath == query = <<>> /\ found = <<>>
IdleVerifier ==
    /\ args = <<>> /\ cfg = <<>> /\ now_utc = 0
    /\ earliest_needed = 0 /\ need_latest = 0
    /\ idx = 0 /\ ok = TRUE /\ status = <<>> /\ vpc = "idle" /\ exit_code = -1
IdleFetch == endpoint = <<>> /\ csv = <<>> /\ fidx = 0 /\ fpc = "idle"
IdleStrategy ==
    env = <<>> /\ dataframe = <<>> /\ spc = "idle" /\ requests = <<>> /\ vader_used = <<>>

-----------------------------------------------------------------------------
(* Decimal numbers.  A JSON number or a Python float is modelled exactly as *)
(* m * 10^e (m >= 0): the verifier's thresholds (10^10) and nanosecond      *)
(* timestamps (10^18) do not fit TLC's 32-bit integers, and division by     *)
(* 1e3 / 1e9 produces fractions of a second.  Mantissas stay below 10^9.    *)

RECURSIVE Pow10(_)
Pow10(k) == IF k <= 0 THEN 1 ELSE 10 * Pow10(k - 1)

RECURSIVE NumDigits(_)
NumDigits(m) == IF m < 10 THEN 1 ELSE 1 + NumDigits(m \div 10)

Num(m, e) == [m |-> m, e |-> e]

RECURSIVE Norm(_)
Norm(x) ==
    IF x.m = 0 THEN Num(0, 0)
    ELSE IF x.m % 10 = 0 THEN Norm(Num(x.m \div 10, x.e + 1))
    ELSE x

\* a < b on decimal numbers
NumLT(a, b) ==
    LET x == Norm(a)
        y == Norm(b)
    IN  IF y.m = 0 THEN FALSE
        ELSE IF x.m = 0 THEN TRUE
        ELSE LET mx == NumDigits(x.m) + x.e
                 my == NumDigits(y.m) + y.e
                 lo == IF x.e < y.e THEN x.e ELSE y.e
             IN  IF mx # my THEN mx < my
                 ELSE x.m * Pow10(x.e - lo) < y.m * Pow10(y.e - lo)

NumGT(a, b) == NumLT(b, a)

\* x / 10^k, exact
DivPow10(x, k) == Norm(Num(x.m, x.e - k))

\* an integer number of seconds as a decimal number
Secs(n) == Norm(Num(n, 0))

-----------------------------------------------------------------------------
(* read_ts_range._parse_rows                                                *)

None == [tag |-> "None"]
Raise == [tag |-> "raise"]

\* dt.datetime: seconds since the epoch, and whether tzinfo is set
Datetime(t, aware) == [tag |-> "datetime", t |-> Norm(t), aware |-> aware]

\* dt.datetime.fromtimestamp(epoch, dt.timezone.utc)
FromTimestamp(epoch) == Datetime(epoch, TRUE)

\* the thresholds of the object-row branch
NsThreshold == Num(1, 10)    \* 10_000_000_000
MsThreshold == Num(1, 7)     \* 10_000_000

\* lines 78-82: epoch = float(val), scaled by the magnitude heuristic
Epoch(val) ==
    IF NumGT(val, NsThreshold) THEN DivPow10(val, 9)
    ELSE IF NumGT(val, MsThreshold) THEN DivPow10(val, 3)
    ELSE Norm(val)

\* the keys tried, in order, for an object row
Keys == <<"time", "timestamp", "date", "t", "open_time">>

NullVal == [vt |-> "null"]

RECURSIVE FirstKey(_, _)
FirstKey(r, i) ==
    IF i > Len(Keys) THEN NullVal
    ELSE IF Keys[i] \in DOMAIN r THEN r[Keys[i]]
    ELSE FirstKey(r, i + 1)

\* comparing two datetimes raises TypeError when only one of them is aware
Comparable(a, b) == a.aware = b.aware
DtLT(a, b) == NumLT(a.t, b.t)

\* lines 69-91: the loop over object rows; acc = [ts, te], or Raise
RECURSIVE DictLoop(_, _, _)
DictLoop(rows, i, acc) ==
    IF i > Len(rows) THEN acc
    ELSE
      LET r   == rows[i]
          val == IF r.type = "dict" THEN FirstKey(r.d, 1) ELSE Raise
      IN  IF r.type # "dict" THEN Raise            \* `k in r` / r[k] on a non-dict
          ELSE IF val.vt = "null" THEN DictLoop(rows, i + 1, acc)
          ELSE IF val.vt = "str" THEN DictLoop(rows, i + 1, acc)  \* fromisoformat fails
          ELSE
            LET tcur == IF val.vt = "num"
                        THEN FromTimestamp(Epoch(val.n))
                        ELSE Datetime(Secs(val.t), FALSE)     \* ISO string
            IN  IF acc.ts = None
                THEN DictLoop(rows, i + 1, [ts |-> tcur, te |-> tcur])
                ELSE IF ~Comparable(tcur, acc.ts) THEN Raise
                ELSE DictLoop(rows, i + 1,
                       [ts |-> IF DtLT(tcur, acc.ts) THEN tcur ELSE acc.ts,
                        te |-> IF DtLT(acc.te, tcur) THEN tcur ELSE acc.te])

\* lines 57-58: min / max of int(r[0]) over array rows
RECURSIVE ArrayLoop(_, _, _)
ArrayLoop(rows, i, acc) ==
    IF i > Len(rows) THEN acc
    ELSE
      LET r == rows[i]
      IN  IF r.type # "array" THEN Raise           \* r[0] on a dict or scalar
          ELSE IF r.ts.vt # "num" THEN Raise       \* int() of a non-number
          ELSE IF acc.tmin = None
          THEN ArrayLoop(rows, i + 1, [tmin |-> r.ts.n, tmax |-> r.ts.n])
          ELSE ArrayLoop(rows, i + 1,
                 [tmin |-> IF NumLT(r.ts.n, acc.tmin) THEN r.ts.n ELSE acc.tmin,
                  tmax |-> IF NumLT(acc.tmax, r.ts.n) THEN r.ts.n ELSE acc.tmax])

Range(first, last) == [tag |-> "range", first |-> first, last |-> last]

\* _parse_rows(rows): a range, None, or Raise (caught by read_ts_range)
ParseRows(rows) ==
    IF Len(rows) = 0 THEN None
    ELSE IF rows[1].type = "array" /\ rows[1].len >= 6
    THEN LET a == ArrayLoop(rows, 1, [tmin |-> None, tmax |-> None])
         IN  IF a = Raise THEN Raise
             ELSE Range(FromTimestamp(DivPow10(a.tmin, 3)),
                        FromTimestamp(DivPow10(a.tmax, 3)))
    ELSE IF rows[1].type = "dict"
    THEN LET d == DictLoop(rows, 1, [ts |-> None, te |-> None])
         IN  IF d = Raise THEN Raise
             ELSE IF d.ts # None /\ d.te # None THEN Range(d.ts, d.te)
             ELSE None
    ELSE None

\* a file's content: [json |-> FALSE] when json.load fails
\* read_ts_range(path): every exception becomes None
ReadTsRange(content) ==
    IF ~content.json THEN None
    ELSE LET r == ParseRows(content.rows)
         IN  IF r = Raise THEN None ELSE r

-----------------------------------------------------------------------------
(* infer_data_path.  Strings are sequences of tokens; a path is a directory *)
(* (sequence of components under ROOT) and a file name.                     *)

RECURSIVE Replace(_, _, _)
Replace(str, old, new) ==
    IF str = <<>> THEN <<>>
    ELSE <<IF Head(str) = old THEN new ELSE Head(str)>> \o Replace(Tail(str), old, new)

Contains(str, tok) == \E i \in 1..Len(str) : str[i] = tok

\* str.lower() on the exchange names used
Lower(name) == IF name = "Binance" THEN "binance" ELSE name

FullPair(pair, mode) ==
    IF mode = "futures" /\ ~Contains(pair, ":") THEN pair \o <<":", "USDT">> ELSE pair

PairKey(pair, mode) == Replace(Replace(FullPair(pair, mode), "/", "_"), ":", "_")

Suffix(mode) == IF mode = "futures" THEN <<"-futures">> ELSE <<>>

FileBase(timeframe, pair, mode) ==
    PairKey(pair, mode) \o <<"-", timeframe>> \o Suffix(mode)

DataDir(exchange) == <<"user_data", "data", Lower(exchange)>>

NestedDir(exchange, mode) ==
    IF mode = "futures" THEN DataDir(exchange) \o <<"futures">> ELSE DataDir(exchange)

Path(dir, name) == [dir |-> dir, name |-> name]

\* mutant: the gzip file of a directory is tried before the plain one
CandidatesGzFirst(exchange, timeframe, pair, mode) ==
    LET base == PairKey(pair, mode) \o <<"-", timeframe>> \o Suffix(mode)
    IN  << Path(NestedDir(exchange, mode), base \o <<".json", ".gz">>),
           Path(NestedDir(exchange, mode), base \o <<".json">>),
           Path(DataDir(exchange), base \o <<".json", ".gz">>),
           Path(DataDir(exchange), base \o <<".json">>) >>

Candidates(exchange, timeframe, pair, mode) ==
    LET base == FileBase(timeframe, pair, mode)
    IN  << Path(NestedDir(exchange, mode), base \o <<".json">>),
           Path(NestedDir(exchange, mode), base \o <<".json", ".gz">>),
           Path(DataDir(exchange), base \o <<".json">>),
           Path(DataDir(exchange), base \o <<".json", ".gz">>) >>

RECURSIVE FirstExisting(_, _, _)
FirstExisting(cands, i, files) ==
    IF i > Len(cands) THEN None
    ELSE IF cands[i] \in DOMAIN files THEN cands[i]
    ELSE FirstExisting(cands, i + 1, files)

\* infer_data_path(exchange, timeframe, pair, mode) over the files on disk
InferDataPath(exchange, timeframe, pair, mode, files) ==
    FirstExisting(Candidates(exchange, timeframe, pair, mode), 1, files)

-----------------------------------------------------------------------------
(* Timestamp parsing: one instant, written to four single-row files         *)
(* (object row in seconds, milliseconds, nanoseconds; array row in          *)
(* milliseconds), each read by read_ts_range.                               *)

\* instants (seconds since the epoch) from 1970 to 2023
Instants ==
    { 5000, 20000, 5000000, 10000000, 20000000,
      1000000000, 1700000000, 1700086400 }

Encodings == {"obj_s", "obj_ms", "obj_ns", "array_ms"}

NumVal(n) == [vt |-> "num", n |-> n]
DictRow(k, v) == [type |-> "dict", d |-> (k :> v)]
ArrayRow(v) == [type |-> "array", len |-> 6, ts |-> v]
Json(rows) == [json |-> TRUE, rows |-> rows]

\* the file holding instant s in encoding enc
Encode(s, enc) ==
    CASE enc = "obj_s"    -> Json(<<DictRow("timestamp", NumVal(Num(s, 0)))>>)
      [] enc = "obj_ms"   -> Json(<<DictRow("timestamp", NumVal(Num(s, 3)))>>)
      [] enc = "obj_ns"   -> Json(<<DictRow("timestamp", NumVal(Num(s, 9)))>>)
      [] enc = "array_ms" -> Json(<<ArrayRow(NumVal(Num(s, 3)))>>)

Unread == [tag |-> "unread"]

InitParse ==
    /\ inst \in Instants
    /\ ranges = [enc \in Encodings |-> Unread]
    /\ IdleFs /\ IdlePath /\ IdleVerifier /\ IdleFetch /\ IdleStrategy

ReadEncoded(enc) ==
    /\ ranges[enc] = Unread
    /\ ranges' = [ranges EXCEPT ![enc] = ReadTsRange(Encode(inst, enc))]
    /\ UNCHANGED <<inst, fs, pathVars, verifierVars, fetchVars, strategyVars>>

NextParse == \E enc \in Encodings : ReadEncoded(enc)

SpecParse == InitParse /\ [][NextParse]_vars

\* C4: object rows holding one instant in seconds, milliseconds or nanoseconds,
\* and an array row holding it in milliseconds, all yield that same UTC instant.
C4_SameInstant ==
    \A enc \in Encodings :
        ranges[enc] # Unread =>
            ranges[enc] = Range(FromTimestamp(Secs(inst)), FromTimestamp(Secs(inst)))

-----------------------------------------------------------------------------
(* Path resolution: infer_data_path on every combination of existing        *)
(* candidate files.                                                         *)

Timeframes == {"5m", "1h"}
Modes == {"spot", "futures", "margin"}
QueryPairs == { <<"BTC", "/", "USDT">>, <<"ETH", "/", "USDT", ":", "USDT">> }
Exchanges == {"binance", "Binance"}

NoContent == [json |-> FALSE]

Queries ==
    [exchange : Exchanges, timeframe : Timeframes, pair : QueryPairs, mode : Modes]

\* every file a query could be answered by, in either layout
CandidateSet(q) ==
    LET c == Candidates(q.exchange, q.timeframe, q.pair, q.mode)
        f == Candidates(q.exchange, q.timeframe, q.pair, "futures")
    IN  {c[i] : i \in 1..Len(c)} \cup {f[1]}

InitPath ==
    /\ query \in Queries
    /\ \E existing \in SUBSET CandidateSet(query) :
           fs = [p \in existing |-> NoContent]
    /\ found = Unread
    /\ IdleParse /\ IdleVerifier /\ IdleFetch /\ IdleStrategy

InferQuery ==
    /\ found = Unread
    /\ found' = InferDataPath(query.exchange, query.timeframe, query.pair, query.mode, fs)
    /\ UNCHANGED <<query, fs, parseVars, verifierVars, fetchVars, strategyVars>>

NextPath == InferQuery

SpecPath == InitPath /\ [][NextPath]_vars

-----------------------------------------------------------------------------
(* verify_coverage.main.  Datetimes of main are whole seconds since the     *)
(* epoch (UTC, timezone-aware).                                             *)

Day == 86400
Day0 == 19675          \* 2023-11-14, the day the modelled runs are about
MaxPairs == 2

Min(a, b) == IF a < b THEN a ELSE b

\* parse_date_utc: a date (day number) as UTC midnight
ParseDateUtc(d) == d * Day

\* timeframe_to_timedelta, in seconds
TimeframeToTimedelta(tf) ==
    CASE tf = "5m" -> 5 * 60
      [] tf = "1h" -> 1 * 3600
      [] tf = "1d" -> 1 * Day
      [] OTHER -> -1          \* ValueError

NoArg == "none"

\* lines 144-148
Timeframe == IF args.timeframe # NoArg THEN args.timeframe ELSE cfg.timeframe
Exch == Lower(cfg.exchange)
Mode == cfg.trading_mode
TrainDays == cfg.train_period_days
Pairs == IF args.pairs # NoArg THEN args.pairs ELSE cfg.pair_whitelist

\* line 152
EarliestNeeded(start, train_days) == ParseDateUtc(start) - train_days * Day

\* mutant: the clamp to the current time is dropped
NeedLatestNoClamp(end, late_policy, tf_delta, now) ==
    ParseDateUtc(end) +
        (CASE late_policy = "day"   -> Day
           [] late_policy = "frame" -> tf_delta
           [] OTHER                 -> 0)

\* lines 154-163: the late bound of the policy, never after the current time
NeedLatest(end, late_policy, tf_delta, now) ==
    LET e    == ParseDateUtc(end)
        need == CASE late_policy = "day"   -> e + Day
                  [] late_policy = "frame" -> e + tf_delta
                  [] OTHER                 -> e
    IN  IF need > now THEN now ELSE need

\* lines 182-188: the status of a pair whose file gave the range (first, last)
RangeStatus(first, last, earliest, latest) ==
    LET early == NumGT(first.t, Secs(earliest))
        late  == NumLT(last.t, Secs(latest))
    IN  [status |-> IF late THEN "INSUFFICIENT_LATE_DATA"
                    ELSE IF early THEN "INSUFFICIENT_EARLY_DATA"
                    ELSE "OK",
         ok |-> ~early /\ ~late]

\* lines 150-163
Setup ==
    /\ vpc = "start"
    /\ earliest_needed' = EarliestNeeded(args.start, TrainDays)
    /\ need_latest' = NeedLatest(args.end, args.late_policy,
                                 TimeframeToTimedelta(Timeframe), now_utc)
    /\ vpc' = "scan"
    /\ idx' = 1
    /\ ok' = TRUE
    /\ UNCHANGED <<args, cfg, now_utc, status, exit_code, fs, parseVars, pathVars, fetchVars, strategyVars>>

\* lines 170-189: one iteration of the loop over the pairs
ScanPair ==
    /\ vpc = "scan"
    /\ idx <= Len(Pairs)
    /\ LET path == InferDataPath(Exch, Timeframe, Pairs[idx], Mode, fs)
           rng  == ReadTsRange(fs[path])
           st   == RangeStatus(rng.first, rng.last, earliest_needed, need_latest)
       IN  IF path = None
           THEN /\ status' = Append(status, "MISSING")
                /\ ok' = FALSE
                /\ idx' = idx + 1
                /\ UNCHANGED <<vpc, exit_code>>
           ELSE IF rng = None
           THEN /\ status' = Append(status, "UNREADABLE")
                /\ ok' = FALSE
                /\ idx' = idx + 1
                /\ UNCHANGED <<vpc, exit_code>>
           ELSE IF ~rng.first.aware
           \* line 183 compares a naive datetime with the aware bound: TypeError,
           \* which nothing in main catches
           THEN /\ vpc' = "raised"
                /\ exit_code' = 1
                /\ UNCHANGED <<status, ok, idx>>
           ELSE /\ status' = Append(status, st.status)
                /\ ok' = (ok /\ st.ok)
                /\ idx' = idx + 1
                /\ UNCHANGED <<vpc, exit_code>>
    /\ UNCHANGED <<args, cfg, now_utc, earliest_needed, need_latest, fs, parseVars, pathVars,
                   fetchVars, strategyVars>>

\* lines 191-204
Finish ==
    /\ vpc = "scan"
    /\ idx > Len(Pairs)
    /\ vpc' = "done"
    /\ exit_code' = IF ok THEN 0 ELSE 2
    /\ UNCHANGED <<args, cfg, now_utc, earliest_needed, need_latest, idx, ok, status,
                   fs, parseVars, pathVars, fetchVars, strategyVars>>

NextVerifier == Setup \/ ScanPair \/ Finish

(* The runs explored. *)

IsoVal(t) == [vt |-> "iso", t |-> t]
ArraysFile(f, l) == Json(<<ArrayRow(NumVal(Num(f, 3))), ArrayRow(NumVal(Num(l, 3)))>>)
NsFile(f, l) == Json(<<DictRow("timestamp", NumVal(Num(f, 9))),
                        DictRow("timestamp", NumVal(Num(l, 9)))>>)
IsoFile(f, l) == Json(<<DictRow("date", IsoVal(f)), DictRow("date", IsoVal(l))>>)
MixedFile(f, l) == Json(<<DictRow("date", IsoVal(f)), DictRow("t", NumVal(Num(l, 9)))>>)

EarlyDay == Day0 - 5     \* start - train_period_days in the modelled runs

Missing == [tag |-> "missing"]

FileChoices ==
    { Missing,
      ArraysFile(EarlyDay * Day, (Day0 - 1) * Day),
      ArraysFile(EarlyDay * Day, Day0 * Day),
      ArraysFile(EarlyDay * Day, (Day0 + 1) * Day),
      ArraysFile((EarlyDay + 1) * Day, (Day0 + 1) * Day),
      ArraysFile((EarlyDay + 1) * Day, (Day0 - 1) * Day),
      NsFile(EarlyDay * Day, (Day0 + 1) * Day),
      IsoFile(EarlyDay * Day, Day0 * Day),
      MixedFile(EarlyDay * Day, (Day0 + 1) * Day),
      NoContent }

PairNames == <<"BTC", "ETH", "SOL", "XRP">>
Whitelist(n) == [i \in 1..n |-> <<PairNames[i], "/", "USDT">>]

\* the data directory in which pair i's file, when it has one, is its first candidate
Disk(pairs, mode, choice) ==
    LET at(i) == Candidates("binance", "5m", pairs[i], mode)[1]
        have  == {i \in 1..Len(pairs) : choice[i] # Missing}
    IN  [p \in {at(i) : i \in have} |-> choice[CHOOSE i \in have : at(i) = p]]

InitVerifier ==
    /\ \E n \in 1..MaxPairs, mode \in {"spot", "futures"} :
         /\ cfg = [timeframe |-> "5m", exchange |-> "binance", trading_mode |-> mode,
                   train_period_days |-> 2, pair_whitelist |-> Whitelist(n)]
         /\ \E choice \in [1..n -> FileChoices] :
                fs = Disk(Whitelist(n), mode, choice)
    /\ \E end \in {Day0 - 1, Day0}, policy \in {"day", "frame", "end"} :
         args = [start |-> Day0 - 3, end |-> end, timeframe |-> NoArg,
                 pairs |-> NoArg, late_policy |-> policy]
    /\ now_utc \in {(Day0 - 1) * Day + 3600, Day0 * Day + 3600, (Day0 + 3) * Day}
    /\ earliest_needed = 0 /\ need_latest = 0
    /\ idx = 0 /\ ok = TRUE /\ status = <<>> /\ vpc = "start" /\ exit_code = -1
    /\ IdleParse /\ IdlePath /\ IdleFetch /\ IdleStrategy

SpecVerifier == InitVerifier /\ [][NextVerifier]_vars

-----------------------------------------------------------------------------
(* fetch_fear_greed: fetch, then write_csv.  The output file is the sequence *)
(* of its lines; a date is the day number of its UTC calendar day.          *)

MaxReadings == 3

Header == [date |-> "date", value |-> "value"]

\* int(row.get("timestamp", 0)): the integer, or Raise when int() fails
TimestampOf(row) ==
    IF row.timestamp.k = "absent" THEN 0
    ELSE IF row.timestamp.k = "int" THEN row.timestamp.v
    ELSE -1

IntFails(row) == row.timestamp.k = "bad"

\* time.strftime("%Y-%m-%d", time.gmtime(ts))
GmDate(ts) == ts \div Day

\* row.get("value", "50")
ValueOf(row) == IF row.value = "absent" THEN "50" ELSE row.value

\* fetch(limit): raise_for_status / the request raising abort the run
FetchRows ==
    /\ fpc = "start"
    /\ fpc' = IF endpoint.ok THEN "open" ELSE "raised"
    /\ UNCHANGED <<endpoint, csv, fidx, fs, parseVars, pathVars, verifierVars, strategyVars>>

\* lines 20-22: the file is truncated and the header written
OpenCsv ==
    /\ fpc = "open"
    /\ csv' = <<Header>>
    /\ fidx' = Len(endpoint.data)
    /\ fpc' = "loop"
    /\ UNCHANGED <<endpoint, fs, parseVars, pathVars, verifierVars, strategyVars>>

\* lines 24-31: one iteration over reversed(rows)
WriteRow ==
    /\ fpc = "loop"
    /\ fidx >= 1
    /\ LET row == endpoint.data[fidx]
           ts  == TimestampOf(row)
       IN  IF IntFails(row)
           THEN fpc' = "raised" /\ UNCHANGED <<csv, fidx>>     \* ValueError / TypeError
           ELSE IF ts <= 0
           THEN fidx' = fidx - 1 /\ UNCHANGED <<csv, fpc>>
           ELSE /\ csv' = Append(csv, [date |-> GmDate(ts), value |-> ValueOf(row)])
                /\ fidx' = fidx - 1
                /\ UNCHANGED fpc
    /\ UNCHANGED <<endpoint, fs, parseVars, pathVars, verifierVars, strategyVars>>

CloseCsv ==
    /\ fpc = "loop"
    /\ fidx = 0
    /\ fpc' = "done"
    /\ UNCHANGED <<endpoint, csv, fidx, fs, parseVars, pathVars, verifierVars, strategyVars>>

NextFetch == FetchRows \/ OpenCsv \/ WriteRow \/ CloseCsv

(* The responses explored: readings newest-first. *)

IntTs(v) == [k |-> "int", v |-> v]

ReadingTimestamps ==
    { [k |-> "absent"], [k |-> "bad"], IntTs(0), IntTs(0 - 5),
      IntTs(Day0 * Day), IntTs(Day0 * Day + 3600), IntTs((Day0 + 1) * Day),
      IntTs((Day0 + 2) * Day) }

Readings == [timestamp : ReadingTimestamps, value : {"68", "absent"}]

\* the readings with a timestamp are in descending order of time
NewestFirst(rows) ==
    \A i, j \in 1..Len(rows) :
        (i < j /\ rows[i].timestamp.k = "int" /\ rows[j].timestamp.k = "int"
           /\ rows[i].timestamp.v > 0 /\ rows[j].timestamp.v > 0)
            => rows[i].timestamp.v > rows[j].timestamp.v

Responses ==
    UNION { {rows \in [1..n -> Readings] : NewestFirst(rows)} : n \in 0..MaxReadings }

InitFetch ==
    /\ endpoint \in [ok : BOOLEAN, data : Responses]
    /\ csv \in {<<>>, <<Header, [date |-> Day0 - 9, value |-> "40"]>>}
    /\ fidx = 0
    /\ fpc = "start"
    /\ IdleParse /\ IdleFs /\ IdlePath /\ IdleVerifier /\ IdleStrategy

SpecFetch == InitFetch /\ [][NextFetch]_vars

-----------------------------------------------------------------------------
(* MyFreqAIStrategy.  A dataframe is [n |-> number of rows, c |-> columns], *)
(* c a function from column names to sequences of n values.  Fractions     *)
(* (sentiment, fear/greed, the sentiment floor) are fixed-point numbers in  *)
(* units of 1/Scale; DI_values are in hundredths; the vol_sma50 column      *)
(* holds the window's sum, that is VolWindow times the rolling mean.        *)

NaN == -1000000
VolWindow == 50
LabelDefault == 12
Scale == 4 * 100
Half == Scale \div 2

FillNa(v, d) == IF v = NaN THEN d ELSE v
\* comparisons with NaN are False
Lt(a, b) == a # NaN /\ b # NaN /\ a < b
Gt(a, b) == a # NaN /\ b # NaN /\ a > b

Has(df, col) == col \in DOMAIN df.c
SetCol(df, col, vals) ==
    [n |-> df.n,
     c |-> [x \in DOMAIN df.c \cup {col} |-> IF x = col THEN vals ELSE df.c[x]]]
ConstCol(df, v) == [i \in 1..df.n |-> v]

\* mutant: hyperopt runs are not recognised
IsHistoricRunBacktestOnly(dp) == dp = "BACKTEST"

\* _is_historic_run; dp is the run mode of the data provider, or "NoDp"
IsHistoricRun(dp) == dp \in {"BACKTEST", "HYPEROPT"}

\* add_sentiment_features; vader is what the analyzer does when it is used
SentimentScore(vader) ==
    IF vader.k = "ok" THEN (vader.a + vader.b) \div 2 ELSE 0

AddSentimentFeatures(df, dp, vader) ==
    IF IsHistoricRun(dp)
    THEN SetCol(SetCol(df, "sentiment_compound", ConstCol(df, 0)),
                "sentiment_normalized", ConstCol(df, Half))
    ELSE LET score == SentimentScore(vader)
         IN  SetCol(SetCol(df, "sentiment_compound", ConstCol(df, score)),
                    "sentiment_normalized", ConstCol(df, (score + Scale) \div 2))

\* pd.to_datetime(...).dt.date of a candle time (seconds since the epoch)
DateOnly(ts) == ts \div Day

\* left.merge(fg, how="left"): the fear_greed values of the merged rows, in order
RECURSIVE MatchesFrom(_, _, _)
MatchesFrom(rows, d, j) ==
    IF j > Len(rows) THEN <<>>
    ELSE (IF rows[j].date = d THEN <<(rows[j].value * Scale) \div 100>> ELSE <<>>)
             \o MatchesFrom(rows, d, j + 1)

RECURSIVE MergeFrom(_, _, _)
MergeFrom(dates, rows, i) ==
    IF i > Len(dates) THEN <<>>
    ELSE LET m == MatchesFrom(rows, DateOnly(dates[i]), 1)
         IN  (IF m = <<>> THEN <<NaN>> ELSE m) \o MergeFrom(dates, rows, i + 1)

\* lines 115-134: the CSV merge; "skip" when the guards send it on, Raise when
\* anything in the try block raises
CsvMerge(df, file) ==
    IF ~file.exists THEN [tag |-> "skip"]
    ELSE IF ~file.readable THEN Raise                       \* pd.read_csv
    ELSE IF ~({"date", "value"} \subseteq file.cols /\ Has(df, "date")) THEN [tag |-> "skip"]
    ELSE IF ~file.parses THEN Raise                         \* to_datetime / astype(float)
    ELSE LET merged == MergeFrom(df.c["date"], file.rows, 1)
         IN  IF Len(merged) # df.n THEN Raise               \* length of values mismatch
             ELSE [tag |-> "merged",
                   df  |-> SetCol(df, "fear_greed",
                                  [i \in 1..df.n |-> FillNa(merged[i], Half)])]

\* lines 137-144: the live value; resp is what the request does
LiveValue(resp) ==
    IF resp.k = "ok" THEN (resp.value * Scale) \div 100 ELSE Half

\* mutant: a failed merge is answered with the neutral value in every run mode
AddFearGreedNoLive(df, file, dp, resp) ==
    LET m == CsvMerge(df, file)
    IN  IF m.tag = "merged" THEN [df |-> m.df, requests |-> <<>>]
        ELSE [df |-> SetCol(df, "fear_greed", ConstCol(df, Half)), requests |-> <<>>]

\* add_fear_greed: the new dataframe and the HTTP requests made
AddFearGreed(df, file, dp, resp) ==
    LET m == CsvMerge(df, file)
    IN  IF m.tag = "merged" THEN [df |-> m.df, requests |-> <<>>]
        ELSE IF IsHistoricRun(dp)
        THEN [df |-> SetCol(df, "fear_greed", ConstCol(df, Half)), requests |-> <<>>]
        ELSE [df |-> SetCol(df, "fear_greed", ConstCol(df, LiveValue(resp))),
              requests |-> <<resp>>]

\* dataframe["volume"].rolling(50).mean(), as the window's sum
RECURSIVE SumTo(_, _, _)
SumTo(vals, lo, hi) == IF lo > hi THEN 0 ELSE vals[hi] + SumTo(vals, lo, hi - 1)

RollingSum(vals) ==
    [i \in 1..Len(vals) |-> IF i < VolWindow THEN NaN ELSE SumTo(vals, i - VolWindow + 1, i)]

AddVolSma(df) ==
    IF Has(df, "volume") THEN SetCol(df, "vol_sma50", RollingSum(df.c["volume"])) ELSE df

\* lines 152-161: tares is what the TA-Lib calls return (three series)
AddIndicators(df, talib, tares) ==
    IF talib = "missing"
    THEN SetCol(SetCol(SetCol(df, "rsi", ConstCol(df, NaN)),
                       "willr", ConstCol(df, NaN)), "adx", ConstCol(df, NaN))
    ELSE SetCol(SetCol(SetCol(df, "rsi", tares.rsi), "willr", tares.willr), "adx", tares.adx)

\* lines 172-176: self.freqai.start, when FreqAI is enabled and does not raise,
\* returns the dataframe with its prediction columns
FreqaiStart(df, ai) ==
    IF ai.k = "ok"
    THEN SetCol(IF ai.di = <<>> THEN df ELSE SetCol(df, "DI_values", ai.di),
                "do_predict", ai.do_predict)
    ELSE df

\* populate_indicators, when no TA-Lib call raises
PopulateIndicatorsDf(df, talib, tares, dp, vader, file, resp, ai) ==
    LET d1 == AddIndicators(df, talib, tares)
        d2 == AddSentimentFeatures(d1, dp, vader)
        fg == AddFearGreed(d2, file, dp, resp)
    IN  [df |-> FreqaiStart(AddVolSma(fg.df), ai), requests |-> fg.requests]

\* mutant: ADX equal to the minimum qualifies
EntryCondAdxInclusive(df, i, adx_min, sentiment_floor) ==
    /\ Lt(df.c["rsi"][i], 30)
    /\ Lt(df.c["willr"][i], -80)
    /\ df.c["adx"][i] # NaN /\ df.c["adx"][i] >= adx_min
    /\ Has(df, "vol_sma50") =>
           df.c["volume"][i] * VolWindow > FillNa(df.c["vol_sma50"][i], 0)
    /\ (Has(df, "sentiment_normalized") /\ sentiment_floor > 0) =>
           df.c["sentiment_normalized"][i] >= sentiment_floor
    /\ Has(df, "do_predict") => df.c["do_predict"][i] = 1
    /\ Has(df, "DI_values") => FillNa(df.c["DI_values"][i], 100) < 5

\* lines 183-201: the entry condition of row i
EntryCond(df, i, adx_min, sentiment_floor) ==
    /\ Lt(df.c["rsi"][i], 30)
    /\ Lt(df.c["willr"][i], -80)
    /\ Gt(df.c["adx"][i], adx_min)
    /\ Has(df, "vol_sma50") =>
           df.c["volume"][i] * VolWindow > FillNa(df.c["vol_sma50"][i], 0)
    /\ (Has(df, "sentiment_normalized") /\ sentiment_floor > 0) =>
           df.c["sentiment_normalized"][i] >= sentiment_floor
    /\ Has(df, "do_predict") => df.c["do_predict"][i] = 1
    /\ Has(df, "DI_values") => FillNa(df.c["DI_values"][i], 100) < 5

\* populate_entry_trend
PopulateEntryTrendDf(df, adx_min, sentiment_floor) ==
    SetCol(df, "enter_long",
           [i \in 1..df.n |-> IF EntryCond(df, i, adx_min, sentiment_floor) THEN 1 ELSE 0])

\* mutant: RSI equal to 70 exits
ExitCondRsiInclusive(df, i) ==
    (df.c["rsi"][i] # NaN /\ df.c["rsi"][i] >= 70) \/ Gt(df.c["willr"][i], -20)

\* lines 253-259: the exit condition of row i
ExitCond(df, i) == Gt(df.c["rsi"][i], 70) \/ Gt(df.c["willr"][i], -20)

\* populate_exit_trend
PopulateExitTrendDf(df) ==
    SetCol(df, "exit_long", [i \in 1..df.n |-> IF ExitCond(df, i) THEN 1 ELSE 0])

\* set_freqai_targets: the forward return over n candles, as the pair
\* <<close[t+n] - close[t], close[t]>>
LabelPeriod(label) == IF label.k = "ok" THEN label.n ELSE LabelDefault

SetFreqaiTargetsDf(df, label) ==
    LET n == LabelPeriod(label)
    IN  SetCol(df, "&-return",
               [i \in 1..df.n |->
                   IF i + n > df.n THEN NaN
                   ELSE <<df.c["close"][i + n] - df.c["close"][i], df.c["close"][i]>>])

\* dataframe.get(col): the column, or None
GetCol(df, col) == IF Has(df, col) THEN df.c[col] ELSE None

\* feature_engineering_standard, when no TA-Lib call raises
FeatureEngineeringStandardDf(df, talib, tares) ==
    LET d0 == IF talib = "missing" THEN df
              ELSE LET a == IF Has(df, "rsi") THEN df ELSE SetCol(df, "rsi", tares.rsi)
                       b == IF Has(a, "willr") THEN a ELSE SetCol(a, "willr", tares.willr)
                   IN  IF Has(b, "adx") THEN b ELSE SetCol(b, "adx", tares.adx)
        d1 == SetCol(SetCol(SetCol(d0, "%-rsi", GetCol(d0, "rsi")),
                            "%-willr", GetCol(d0, "willr")), "%-adx", GetCol(d0, "adx"))
        d2 == IF Has(d1, "fear_greed")
              THEN SetCol(d1, "%-fear_greed",
                          [i \in 1..d1.n |-> FillNa(d1.c["fear_greed"][i], Half)])
              ELSE d1
        d3 == IF Has(d2, "sentiment_normalized")
              THEN SetCol(d2, "%-sentiment",
                          [i \in 1..d2.n |-> FillNa(d2.c["sentiment_normalized"][i], Half)])
              ELSE d2
        d4 == IF Has(d3, "volume") /\ ~Has(d3, "vol_sma50") THEN AddVolSma(d3) ELSE d3
    IN  IF Has(d4, "volume")
        THEN SetCol(d4, "%-vol_above_sma50",
                    [i \in 1..d4.n |->
                        IF d4.c["volume"][i] * VolWindow > FillNa(d4.c["vol_sma50"][i], 0)
                        THEN 1 ELSE 0])
        ELSE d4

\* whether feature_engineering_standard calls TA-Lib at all
FeaturesCallTa(df, talib) ==
    talib # "missing" /\ ~(Has(df, "rsi") /\ Has(df, "willr") /\ Has(df, "adx"))

(* The hooks, in the order the host invokes them. *)

otherVars == <<parseVars, fs, pathVars, verifierVars, fetchVars>>

MaxRows == 2

\* what the TA-Lib calls return for n rows: one of a few series, or Raise
TaResults(n) ==
    { [rsi |-> [i \in 1..n |-> t[1]], willr |-> [i \in 1..n |-> t[2]],
       adx |-> [i \in 1..n |-> t[3]]] :
          t \in { <<NaN, NaN, NaN>>, <<20, -90, 30>>, <<80, -10, 30>> } }

\* what the sentiment analyzer does when it is used
Vaders ==
    { [k |-> "missing"], [k |-> "ctor_raises"], [k |-> "scores_raise"],
      [k |-> "ok", a |-> 240, b |-> -160], [k |-> "ok", a |-> Scale, b |-> Scale],
      [k |-> "ok", a |-> -Scale, b |-> -Scale] }

\* what the fear/greed endpoint answers when it is asked
HttpResponses ==
    { [k |-> "raises"], [k |-> "not_ok"], [k |-> "bad_body"] }
    \cup { [k |-> "ok", value |-> v] : v \in {0, 35, 100} }

\* what self.freqai does: absent, raising, or adding its prediction columns
Freqais(n) ==
    { [k |-> "absent"], [k |-> "raises"],
      [k |-> "ok", do_predict |-> [i \in 1..n |-> 1], di |-> <<>>],
      [k |-> "ok", do_predict |-> [i \in 1..n |-> 1], di |-> [i \in 1..n |-> 3]] }

\* freqai_info["feature_parameters"]: readable with a label period, or not
Labels == { [k |-> "ok", n |-> 1], [k |-> "ok", n |-> LabelDefault], [k |-> "raises"] }

NotUsed == [k |-> "not_used"]

PopulateIndicators ==
    /\ spc = "raw"
    /\ \E tares \in TaResults(dataframe.n) \cup {Raise}, vader \in Vaders,
          resp \in HttpResponses, ai \in Freqais(dataframe.n) :
         IF env.talib # "missing" /\ tares = Raise
         THEN \* ta.RSI / ta.WILLR / ta.ADX raising is not caught
              /\ spc' = "raised"
              /\ UNCHANGED <<dataframe, requests, vader_used>>
         ELSE LET r == PopulateIndicatorsDf(dataframe, env.talib, tares, env.dp, vader,
                                            env.file, resp, ai)
              IN  /\ dataframe' = r.df
                  /\ requests' = r.requests
                  /\ vader_used' = IF IsHistoricRun(env.dp) THEN NotUsed ELSE vader
                  /\ spc' = "indicators"
    /\ UNCHANGED <<env, otherVars>>

FeatureEngineeringStandard ==
    /\ spc = "indicators"
    /\ \E tares \in TaResults(dataframe.n) \cup {Raise} :
         IF FeaturesCallTa(dataframe, env.talib) /\ tares = Raise
         THEN spc' = "raised" /\ UNCHANGED dataframe
         ELSE /\ dataframe' = FeatureEngineeringStandardDf(dataframe, env.talib, tares)
              /\ spc' = "features"
    /\ UNCHANGED <<env, requests, vader_used, otherVars>>

SetFreqaiTargets ==
    /\ spc = "features"
    /\ \E label \in Labels : dataframe' = SetFreqaiTargetsDf(dataframe, label)
    /\ spc' = "targets"
    /\ UNCHANGED <<env, requests, vader_used, otherVars>>

PopulateEntryTrend ==
    /\ spc = "targets"
    /\ dataframe' = PopulateEntryTrendDf(dataframe, env.adx_min, env.sentiment_floor)
    /\ spc' = "entry"
    /\ UNCHANGED <<env, requests, vader_used, otherVars>>

PopulateExitTrend ==
    /\ spc = "entry"
    /\ dataframe' = PopulateExitTrendDf(dataframe)
    /\ spc' = "exit"
    /\ UNCHANGED <<env, requests, vader_used, otherVars>>

NextStrategy ==
    \/ PopulateIndicators
    \/ FeatureEngineeringStandard
    \/ SetFreqaiTargets
    \/ PopulateEntryTrend
    \/ PopulateExitTrend

(* The runs explored: short tables of 5-minute candles, every fear/greed    *)
(* file, every run mode.                                                    *)

\* n candles from time t0 on; with_date = FALSE leaves the date column out
Ohlcv(n, t0, volume, with_date) ==
    [n |-> n,
     c |-> [x \in {"close", "volume"} \cup (IF with_date THEN {"date"} ELSE {}) |->
              CASE x = "close"  -> [i \in 1..n |-> 100 + i]
                [] x = "volume" -> volume
                [] x = "date"   -> [i \in 1..n |-> t0 + (i - 1) * 300]]]

NoFile == [exists |-> FALSE]
CsvFile(cols, parses, rows) ==
    [exists |-> TRUE, readable |-> TRUE, cols |-> cols, parses |-> parses, rows |-> rows]

FearGreedFiles ==
    { NoFile,
      [exists |-> TRUE, readable |-> FALSE],
      CsvFile({"date"}, TRUE, <<>>),
      CsvFile({"date", "value"}, TRUE, <<[date |-> Day0, value |-> 70]>>),
      CsvFile({"date", "value"}, TRUE,
              <<[date |-> Day0, value |-> 0], [date |-> Day0 + 1, value |-> 100]>>),
      CsvFile({"date", "value"}, TRUE,
              <<[date |-> Day0, value |-> 70], [date |-> Day0, value |-> 30]>>),
      CsvFile({"date", "value"}, FALSE, <<[date |-> Day0, value |-> 70]>>) }

RunModes == {"BACKTEST", "HYPEROPT", "LIVE", "NoDp"}

InitStrategy ==
    /\ \E n \in 1..MaxRows, t0 \in {Day0 * Day, (Day0 + 1) * Day - 300, (Day0 + 2) * Day},
          with_date \in BOOLEAN :
         dataframe = Ohlcv(n, t0, [i \in 1..n |-> 3], with_date)
    /\ env \in [talib : {"missing", "present"}, dp : RunModes, file : FearGreedFiles,
                adx_min : {25}, sentiment_floor : {0}]
    /\ spc = "raw"
    /\ requests = <<>>
    /\ vader_used = NotUsed
    /\ IdleParse /\ IdleFs /\ IdlePath /\ IdleVerifier /\ IdleFetch

SpecStrategy == InitStrategy /\ [][NextStrategy]_vars

(* The signal hooks on longer tables: Warmup candles, none or one short of  *)
(* the volume window, followed by up to MaxFree candles of every kind the   *)
(* entry rule tells apart.                                                  *)

MaxFree == 1

\* a candle: what TA-Lib, the exchange and FreqAI give for it
Candle(rsi, willr, adx, volume, do_predict, di) ==
    [rsi |-> rsi, willr |-> willr, adx |-> adx, volume |-> volume,
     do_predict |-> do_predict, di |-> di]

\* RSI 20, Williams %R -90, ADX 30, volume 3, prediction valid, DI 0.03
Qualifying == Candle(20, -90, 30, 3, 1, 3)

\* the qualifying candle and the candles differing from it in one value
Candles ==
    { Qualifying }
    \cup { [Qualifying EXCEPT !.rsi = v]        : v \in {30, NaN} }
    \cup { [Qualifying EXCEPT !.willr = v]      : v \in {-80, NaN} }
    \cup { [Qualifying EXCEPT !.adx = v]        : v \in {10, 25, NaN} }
    \cup { [Qualifying EXCEPT !.volume = v]     : v \in {0, 2} }
    \cup { [Qualifying EXCEPT !.do_predict = v] : v \in {0} }
    \cup { [Qualifying EXCEPT !.di = v]         : v \in {5, NaN} }
    \* candles the exit rule tells apart
    \cup { [Qualifying EXCEPT !.rsi = v]        : v \in {70, 80} }
    \cup { [Qualifying EXCEPT !.willr = v]      : v \in {-20, -10} }
    \cup { Candle(NaN, -10, 30, 3, 1, 3), Candle(80, NaN, 30, 3, 1, 3),
           Candle(NaN, NaN, 30, 3, 1, 3) }

\* the warm-up candles: volume 2, indicators not yet defined or qualifying
Warmups ==
    { [i \in 1..k |-> c] :
        k \in {0, VolWindow - 1},
        c \in { [Qualifying EXCEPT !.volume = 2],
                Candle(NaN, NaN, NaN, 2, 1, 3) } }

CandleTables ==
    { w \o f : w \in Warmups,
               f \in UNION { [1..m -> Candles] : m \in 1..MaxFree } }

Column(t, field) == [i \in 1..Len(t) |-> t[i][field]]

\* the table populate_entry_trend receives for candles t: the output of the
\* hooks before it
BeforeEntry(t, talib, with_volume, ai_cols) ==
    LET n     == Len(t)
        full  == Ohlcv(n, Day0 * Day, Column(t, "volume"), TRUE)
        ohlcv == IF with_volume THEN full
                 ELSE [n |-> n, c |-> [x \in DOMAIN full.c \ {"volume"} |-> full.c[x]]]
        tares == [rsi |-> Column(t, "rsi"), willr |-> Column(t, "willr"),
                  adx |-> Column(t, "adx")]
        ai    == CASE ai_cols = 0 -> [k |-> "absent"]
                   [] ai_cols = 1 -> [k |-> "ok", do_predict |-> Column(t, "do_predict"),
                                      di |-> <<>>]
                   [] OTHER       -> [k |-> "ok", do_predict |-> Column(t, "do_predict"),
                                      di |-> Column(t, "di")]
        ind   == PopulateIndicatorsDf(ohlcv, talib, tares, "BACKTEST", NotUsed, NoFile,
                                      [k |-> "raises"], ai).df
    IN  SetFreqaiTargetsDf(FeatureEngineeringStandardDf(ind, talib, tares),
                           [k |-> "raises"])

InitEntry ==
    /\ \E t \in CandleTables, with_volume \in BOOLEAN, ai_cols \in 0..2 :
         /\ env \in [talib : {"missing", "present"}, dp : {"BACKTEST"}, file : {NoFile},
                     adx_min : {25}, sentiment_floor : {0, Half, Half + 40}]
         /\ dataframe = BeforeEntry(t, env.talib, with_volume, ai_cols)
    /\ spc = "targets"
    /\ requests = <<>>
    /\ vader_used = NotUsed
    /\ IdleParse /\ IdleFs /\ IdlePath /\ IdleVerifier /\ IdleFetch

NextEntry ==
    \/ PopulateEntryTrend
    \/ PopulateExitTrend

SpecEntry == InitEntry /\ [][NextEntry]_vars

-----------------------------------------------------------------------------
(* Claims about the coverage verifier. *)

\* the range read_ts_range gives for pair i of the scan
PairPath(i) == InferDataPath(Exch, Timeframe, Pairs[i], Mode, fs)
PairRange(i) == IF PairPath(i) = None THEN None ELSE ReadTsRange(fs[PairPath(i)])

\* the status the contract gives pair i
ContractStatus(i) ==
    LET r == PairRange(i)
    IN  IF PairPath(i) = None THEN "MISSING"
        ELSE IF r = None THEN "UNREADABLE"
        ELSE IF NumLT(r.last.t, Secs(need_latest)) THEN "INSUFFICIENT_LATE_DATA"
        ELSE IF NumGT(r.first.t, Secs(ParseDateUtc(args.start) - TrainDays * Day))
             THEN "INSUFFICIENT_EARLY_DATA"
        ELSE "OK"

Ended == vpc \in {"done", "raised"}

\* C1: when the scan has ended, every configured pair has exactly one status:
\* MISSING without a candidate file, UNREADABLE without a range, otherwise OK,
\* INSUFFICIENT_EARLY_DATA or INSUFFICIENT_LATE_DATA (late wins) by the two bounds.
C1_EveryPairOneStatus ==
    Ended =>
        /\ Len(status) = Len(Pairs)
        /\ \A i \in 1..Len(Pairs) : status[i] = ContractStatus(i)

\* C2: whatever the pairs' files hold, the scan visits every pair without
\* aborting, exits 2 if some pair is not OK and 0 if all are, and a failed pair
\* keeps the overall result failed.
C2_ScanNeverAborts ==
    /\ vpc # "raised"
    /\ (\E i \in 1..Len(status) : status[i] # "OK") => ~ok
    /\ vpc = "done" =>
         /\ Len(status) = Len(Pairs)
         /\ exit_code = IF \A i \in 1..Len(status) : status[i] = "OK" THEN 0 ELSE 2

\* the late bound of the policy, before any clamping
PolicyBound ==
    ParseDateUtc(args.end) +
        (CASE args.late_policy = "day"   -> Day
           [] args.late_policy = "frame" -> TimeframeToTimedelta(Timeframe)
           [] args.late_policy = "end"   -> 0)

\* pair i was reported, its early bound holds and its last timestamp is end
LastIsEnd(i) ==
    /\ i \in 1..Len(status)
    /\ LET r == PairRange(i)
       IN  /\ r # None
           /\ ~NumGT(r.first.t, Secs(earliest_needed))
           /\ r.last.t = Secs(ParseDateUtc(args.end))

-----------------------------------------------------------------------------
(* Claims about path resolution. *)

\* the documented file name, without its extension
DocumentedBase(q) ==
    [i \in 1..Len(q.pair) |-> IF q.pair[i] \in {"/", ":"} THEN "_" ELSE q.pair[i]]
        \o (IF q.mode = "futures" /\ ~Contains(q.pair, ":") THEN <<"_", "USDT">> ELSE <<>>)
        \o <<"-", q.timeframe>>
        \o (IF q.mode = "futures" THEN <<"-futures">> ELSE <<>>)

\* the documented candidates, in order: nested plain, nested gzip, flat plain, flat gzip
DocumentedCandidate(q, k) ==
    LET flat   == <<"user_data", "data", "binance">>
        nested == IF q.mode = "futures" THEN flat \o <<"futures">> ELSE flat
    IN  [dir  |-> IF k <= 2 THEN nested ELSE flat,
         name |-> DocumentedBase(q) \o (IF k % 2 = 1 THEN <<".json">> ELSE <<".json", ".gz">>)]

\* C5: infer_data_path returns the first existing candidate in the order nested
\* .json, nested .json.gz, flat .json, flat .json.gz, and None when none exists;
\* the name is the pair with / and : replaced by _, then -<timeframe>, with _USDT
\* and -futures added for a futures pair without settlement asset and neither in
\* spot mode.
C5_FirstExistingCandidate ==
    found # Unread =>
        /\ (\A k \in 1..4 : DocumentedCandidate(query, k) \notin DOMAIN fs) => found = None
        /\ \A k \in 1..4 :
             (/\ DocumentedCandidate(query, k) \in DOMAIN fs
              /\ \A j \in 1..(k - 1) : DocumentedCandidate(query, j) \notin DOMAIN fs)
                 => found = DocumentedCandidate(query, k)
        /\ (query.mode = "futures" /\ query.pair = <<"BTC", "/", "USDT">>
              /\ query.timeframe = "5m" /\ found # None)
             => SubSeq(found.name, 1, 8) =
                    <<"BTC", "_", "USDT", "_", "USDT", "-", "5m", "-futures">>
        /\ (query.mode = "spot" /\ query.pair = <<"BTC", "/", "USDT">>
              /\ query.timeframe = "5m" /\ found # None)
             => found.name \in { <<"BTC", "_", "USDT", "-", "5m", ".json">>,
                                 <<"BTC", "_", "USDT", "-", "5m", ".json", ".gz">> }

\* futures BTC/USDT at 5m with only the flat files on disk resolves to the flat
\* BTC_USDT_USDT-5m-futures.json
C5_Witness ==
    /\ query.mode = "futures" /\ query.pair = <<"BTC", "/", "USDT">> /\ query.timeframe = "5m"
    /\ DocumentedCandidate(query, 1) \notin DOMAIN fs
    /\ DocumentedCandidate(query, 2) \notin DOMAIN fs
    /\ DocumentedCandidate(query, 3) \in DOMAIN fs
    /\ DocumentedCandidate(query, 4) \in DOMAIN fs
    /\ found = [dir  |-> <<"user_data", "data", "binance">>,
                name |-> <<"BTC", "_", "USDT", "_", "USDT", "-", "5m", "-futures", ".json">>]

-----------------------------------------------------------------------------
(* Claims about the fetcher. *)

\* a reading the contract keeps: its timestamp parses to a positive integer
Kept(row) == row.timestamp.k = "int" /\ row.timestamp.v > 0

\* C6: for any list of readings returned newest-first, write_csv discards the
\* readings with a non-positive or unparseable timestamp, writes one row for
\* each remaining reading, and the rows are in strictly ascending date order.
C6_OneRowPerKeptReading ==
    (endpoint.ok /\ fpc \in {"done", "raised"}) =>
        /\ fpc = "done"
        /\ Len(csv) - 1 = Cardinality({i \in 1..Len(endpoint.data) : Kept(endpoint.data[i])})
        /\ \A i, j \in 2..Len(csv) : i < j => csv[i].date < csv[j].date

-----------------------------------------------------------------------------
(* Claims about the strategy plugin. *)

IndicatorsDone == spc \in {"indicators", "features", "targets", "entry", "exit"}
Historic == env.dp \in {"BACKTEST", "HYPEROPT"}

\* C8: whatever external dependency fails, no hook raises to the host, and the
\* table the hooks return carries the signal and feature columns.
C8_HooksNeverRaise ==
    /\ spc # "raised"
    /\ spc = "exit" =>
         {"rsi", "willr", "adx", "sentiment_normalized", "fear_greed",
          "enter_long", "exit_long"} \subseteq DOMAIN dataframe.c

\* the fear/greed file exists with date and value columns, and the table has a
\* date column
CsvApplies ==
    /\ env.file.exists /\ env.file.readable
    /\ {"date", "value"} \subseteq env.file.cols
    /\ "date" \in DOMAIN dataframe.c

\* the CSV rows of the calendar date of table row i
CsvMatches(i) ==
    {j \in 1..Len(env.file.rows) :
        env.file.rows[j].date = dataframe.c["date"][i] \div Day}

\* row i has value/100 of a CSV row of its date, or 0.5 when there is none
JoinedValue(i) ==
    IF CsvMatches(i) = {} THEN dataframe.c["fear_greed"][i] = Half
    ELSE \E j \in CsvMatches(i) :
             dataframe.c["fear_greed"][i] * 100 = env.file.rows[j].value * Scale

\* every row has the live value: value/100 of the one request made, 0.5 when it failed
LiveOrNeutral ==
    IF Historic
    THEN /\ requests = <<>>
         /\ \A i \in 1..dataframe.n : dataframe.c["fear_greed"][i] = Half
    ELSE /\ Len(requests) = 1
         /\ \A i \in 1..dataframe.n :
              dataframe.c["fear_greed"][i] * 100 =
                 (IF requests[1].k = "ok" THEN requests[1].value * Scale ELSE Half * 100)

FearGreedInRange ==
    /\ Historic => requests = <<>>
    /\ \A i \in 1..dataframe.n :
         dataframe.c["fear_greed"][i] >= 0 /\ dataframe.c["fear_greed"][i] <= Scale

\* C9 as stated: the CSV join applies whenever the file exists with date and
\* value columns and the table has a date column.
C9_CsvJoinWheneverPresent ==
    IndicatorsDone =>
        /\ IF CsvApplies
           THEN requests = <<>> /\ \A i \in 1..dataframe.n : JoinedValue(i)
           ELSE LiveOrNeutral
        /\ FearGreedInRange

\* the merge completes: the cells parse and no table row's date occurs twice in the CSV
MergeCompletes ==
    /\ env.file.parses
    /\ \A i \in 1..dataframe.n : Cardinality(CsvMatches(i)) <= 1

\* C9 amended: the CSV join applies when, in addition, the merge completes
\* without error; a CSV whose cells do not parse, or which holds a table row's
\* date more than once, is treated like a missing one: live fetch outside
\* backtest/hyperopt runs, 0.5 otherwise.  No request in a backtest/hyperopt
\* run, and every value in [0,1].
C9_CsvJoinWhenMergeCompletes ==
    IndicatorsDone =>
        /\ IF CsvApplies /\ MergeCompletes
           THEN requests = <<>> /\ \A i \in 1..dataframe.n : JoinedValue(i)
           ELSE LiveOrNeutral
        /\ FearGreedInRange

\* a CSV with 70 for the first candle's day and nothing for the second's: 0.70, 0.5
C9_Witness ==
    /\ spc = "indicators"
    /\ CsvApplies
    /\ env.file.rows = <<[date |-> Day0, value |-> 70]>>
    /\ dataframe.n = 2
    /\ dataframe.c["fear_greed"] = <<(70 * Scale) \div 100, Half>>
    /\ requests = <<>>

\* C10: in a backtest or hyperopt run sentiment_normalized is 0.5 and
\* sentiment_compound 0.0 on every row and the analyzer is not consulted, so
\* replays agree; otherwise the compound score is the mean of the two phrase
\* scores, 0.0 when the analyzer is unavailable or fails, and
\* sentiment_normalized = (compound + 1) / 2 lies in [0,1].
C10_SentimentDeterministicInReplay ==
    IndicatorsDone =>
        \A i \in 1..dataframe.n :
            LET compound   == dataframe.c["sentiment_compound"][i]
                normalized == dataframe.c["sentiment_normalized"][i]
            IN  IF Historic
                THEN compound = 0 /\ normalized = Half /\ vader_used = NotUsed
                ELSE /\ 2 * compound =
                          (IF vader_used.k = "ok" THEN vader_used.a + vader_used.b ELSE 0)
                     /\ 2 * normalized = compound + Scale
                     /\ normalized >= 0 /\ normalized <= Scale

\* a hyperopt run through all hooks, neutral sentiment on every row
C10_Witness ==
    /\ spc = "exit"
    /\ env.dp = "HYPEROPT"
    /\ dataframe.n = 2
    /\ dataframe.c["sentiment_normalized"] = <<Half, Half>>
    /\ dataframe.c["sentiment_compound"] = <<0, 0>>

EntryDone == spc \in {"entry", "exit"}
IsNaN(v) == v = NaN
Cell(col, i) == dataframe.c[col][i]

\* the gates of the entry rule other than the volume gate, for row i
OtherGates(i) ==
    /\ ~IsNaN(Cell("rsi", i)) /\ Cell("rsi", i) < 30
    /\ ~IsNaN(Cell("willr", i)) /\ Cell("willr", i) < -80
    /\ ~IsNaN(Cell("adx", i)) /\ Cell("adx", i) > env.adx_min
    /\ env.sentiment_floor > 0 => Cell("sentiment_normalized", i) >= env.sentiment_floor
    /\ "do_predict" \in DOMAIN dataframe.c => Cell("do_predict", i) = 1
    /\ "DI_values" \in DOMAIN dataframe.c =>
           ~IsNaN(Cell("DI_values", i)) /\ Cell("DI_values", i) < 5

NoEntryWithoutIndicators ==
    \A i \in 1..dataframe.n :
        (IsNaN(Cell("rsi", i)) \/ IsNaN(Cell("willr", i)) \/ IsNaN(Cell("adx", i))
           \/ env.talib = "missing")
        => Cell("enter_long", i) = 0

\* C7 as stated: enter_long = 1 exactly on the rows that pass every gate, the
\* volume gate being "volume above its 50-period average" wherever the
\* vol_sma50 column is present.
C7_EntersExactlyAboveAverage ==
    EntryDone =>
        /\ \A i \in 1..dataframe.n :
             /\ Cell("enter_long", i) \in {0, 1}
             /\ Cell("enter_long", i) = 1 <=>
                  /\ OtherGates(i)
                  /\ "vol_sma50" \in DOMAIN dataframe.c =>
                       /\ ~IsNaN(Cell("vol_sma50", i))
                       /\ Cell("volume", i) * VolWindow > Cell("vol_sma50", i)
        /\ NoEntryWithoutIndicators

\* C7 amended: on a row whose 50-period average is missing (fewer than 50
\* candles so far) the volume gate is "volume above 0"; everything else as
\* stated.
C7_EntersMissingAverageAsZero ==
    EntryDone =>
        /\ \A i \in 1..dataframe.n :
             /\ Cell("enter_long", i) \in {0, 1}
             /\ Cell("enter_long", i) = 1 <=>
                  /\ OtherGates(i)
                  /\ "vol_sma50" \in DOMAIN dataframe.c =>
                       IF IsNaN(Cell("vol_sma50", i))
                       THEN Cell("volume", i) > 0
                       ELSE Cell("volume", i) * VolWindow > Cell("vol_sma50", i)
        /\ NoEntryWithoutIndicators

\* the 50th candle enters with its volume above the average of the window, and
\* a qualifying warm-up candle before it enters without an average
C7_Witness ==
    /\ spc = "entry"
    /\ dataframe.n = VolWindow
    /\ {"vol_sma50", "DI_values"} \subseteq DOMAIN dataframe.c
    /\ env.sentiment_floor = Half
    /\ ~IsNaN(Cell("vol_sma50", VolWindow))
    /\ Cell("volume", VolWindow) * VolWindow > Cell("vol_sma50", VolWindow)
    /\ Cell("enter_long", VolWindow) = 1
    /\ IsNaN(Cell("vol_sma50", 1))
    /\ Cell("enter_long", 1) = 1

\* C11: populate_exit_trend sets exit_long to 1 exactly on the rows where
\* RSI > 70 or Williams %R > -20 and to 0 on the others (a missing value
\* satisfies neither comparison, so a row with both missing never exits), and
\* leaves the number of rows and every other column as they were.
C11_ExitsExactlyOverbought ==
    [][(spc = "entry" /\ spc' = "exit") =>
         /\ dataframe'.n = dataframe.n
         /\ DOMAIN dataframe'.c = DOMAIN dataframe.c \cup {"exit_long"}
         /\ \A col \in DOMAIN dataframe.c \ {"exit_long"} :
              dataframe'.c[col] = dataframe.c[col]
         /\ \A i \in 1..dataframe.n :
              LET rsi   == dataframe.c["rsi"][i]
                  willr == dataframe.c["willr"][i]
                  exit  == dataframe'.c["exit_long"][i]
              IN  /\ exit \in {0, 1}
                  /\ exit = 1 <=> ((~IsNaN(rsi) /\ rsi > 70) \/ (~IsNaN(willr) /\ willr > -20))
                  /\ (IsNaN(rsi) /\ IsNaN(willr)) => exit = 0
      ]_vars

\* after the warm-up candles, which do not exit, the 50th candle exits on its
\* Williams %R alone, its RSI missing
C11_Witness ==
    /\ spc = "exit"
    /\ dataframe.n = VolWindow
    /\ IsNaN(Cell("rsi", VolWindow))
    /\ Cell("willr", VolWindow) > -20
    /\ Cell("exit_long", VolWindow) = 1
    /\ Cell("rsi", 1) = 20
    /\ Cell("exit_long", 1) = 0

====
